---- MODULE Spec2Model ----
(***************************************************************************)
(* Model of bot.py: provider rotation (OKX -> Bybit -> Binance, Bitget for *)
(* BGB), 1H -> 4H resampling with 1H fallback, the RSI/MACD signal         *)
(* decision with the 1D trend filter and the OPPORTUNITY cooldown, and the *)
(* run_once cycle around the persisted state file.                         *)
(*                                                                         *)
(* Time is counted in hours.  A DataFrame is the sequence of its rows,     *)
(* oldest first; the empty DataFrame is << >>.  ema() is not computed:     *)
(* the values the indicator columns take on the last two rows of a frame   *)
(* are inputs (a "tail"), and macd_hist is derived from them as the code   *)
(* derives it.                                                             *)
(***************************************************************************)
EXTENDS Integers, Sequences, FiniteSets, TLC

VARIABLES
  clock,   \* now_utc(), in hours
  file,    \* the state file .state/state.json
  pc,      \* where run_once stands: idle between runs
  state,   \* run_once's state dict
  nowu,    \* run_once's nowu
  idx,     \* position of the signals loop in COINS
  cfg,     \* the configuration read from the environment
  out,     \* what the current run has printed and sent, in order
  ev,      \* the last evaluate_signals call: arguments, result, locals
  hist,    \* per symbol: when OPPORTUNITY was last returned, and the
           \* number of runs in a row that returned BUY
  io,      \* argument and result of a fetch or resample call on its own
  daily,   \* the date the daily report was last sent on, and how many
           \* were sent on that date
  peer     \* a second run_once process on the same state file

vars == <<clock, file, pc, state, nowu, idx, cfg, out, ev, hist, io, daily,
          peer>>

(* ------------------------------ bounds -------------------------------- *)

\* The clock stops advancing at MaxTime hours.
MaxTime == 6

\* Hours between two readings of the clock.
TickHours == 3

\* Longest 1H sequence handed to the resampler on its own, and the latest
\* hour of its rows.
MaxFine == 2

MaxHour == 5

(* ------------------------------ config -------------------------------- *)

\* COINS (line 13), restricted to one rotated symbol and the Bitget symbol.
COINS == <<"BTC", "BGB">>

Symbols == {COINS[i] : i \in 1..Len(COINS)}

RSI_BUY == 30

RSI_OPP == 40

RSI_WIDEN == 5

SLOW == 26

SIGN == 9

OPP_COOLDOWN_H == 6

\* .date(): hours in a calendar day.
DAY_HOURS == 24

\* len(df4) < 60 (line 313); the same floor in add_indicators (line 293).
MIN_BARS == 60

TrendFilters == {"off", "buy_only_up", "all_up"}

\* The environment variables read at import (lines 19, 25, 46, 49).
Configs ==
  [TREND_FILTER : TrendFilters, ENABLE_OPP : BOOLEAN,
   RSI_WIDE : BOOLEAN, ALLOW_1H_FALLBACK : BOOLEAN]

\* RSI_WIDE at its default.
RunConfigs == {c \in Configs : ~c.RSI_WIDE}

(* ------------------------------ helpers ------------------------------- *)

Max(a, b) == IF a >= b THEN a ELSE b

Min(a, b) == IF a <= b THEN a ELSE b

\* data[::-1]
Reverse(s) == SubSeq([i \in 1..Len(s) |-> s[Len(s) + 1 - i]], 1, Len(s))

(* --------------------------- market data ------------------------------ *)

Providers == {"okx", "bybit", "binance", "bitget"}

ProviderNo(p) ==
  CASE p = "okx" -> 1 [] p = "bybit" -> 2 [] p = "binance" -> 3 [] OTHER -> 4

\* Row i (oldest first) of the candles provider p serves for a bar size of
\* `step` hours.  Providers differ in their prices, so that a frame shows
\* which provider it came from.
Row(p, step, i) ==
  LET o == 10 * ProviderNo(p) + (i % 3)
      c == 10 * ProviderNo(p) + ((i + 1) % 4)
  IN  [time |-> step * i, open |-> o, high |-> Max(o, c) + 1,
       low |-> Min(o, c) - 1, close |-> c, volume |-> i % 3]

\* The row limit each request carries: min(limit, 300) for OKX, 200 at most
\* for Bitget, and the lookback itself (under 1000) for Bybit and Binance.
OKX_LIMIT == 300

BITGET_LIMIT == 200

LOOKBACK_1H == 900

RowLimit(p) ==
  CASE p = "okx" -> Min(LOOKBACK_1H, OKX_LIMIT)
    [] p = "bitget" -> Min(LOOKBACK_1H, BITGET_LIMIT)
    [] OTHER -> LOOKBACK_1H

\* The history lengths a provider may hold for a symbol.
HistoryLens == {3, 60, 160, 240}

BarSizes == {1, DAY_HOURS}

\* The candles on the exchanges, oldest first.
Market ==
  [p \in Providers, step \in BarSizes, n \in HistoryLens |->
     [i \in 1..n |-> Row(p, step, i)]]

\* The rows a request to provider p returns: as many of the most recent
\* candles as the row limit lets through, newest first except at Binance.
Served ==
  [p \in Providers, step \in BarSizes, n \in HistoryLens |->
     LET rows == SubSeq(Market[p, step, n], 1, Min(n, RowLimit(p)))
     IN  IF p = "binance" THEN rows ELSE Reverse(rows)]

PayloadKinds == {"error", "empty", "rows"}

\* What one HTTP request yields: an error (HTTP status, timeout, unparseable
\* payload) or a payload with its rows in the provider's own order.
Payload(p, kind, step, n) ==
  IF kind = "error" THEN [status |-> "error", data |-> << >>]
  ELSE IF kind = "empty" THEN [status |-> "ok", data |-> << >>]
  ELSE [status |-> "ok", data |-> Served[p, step, n]]

\* d tells what the network holds for one symbol and bar size: the kind of
\* payload each provider answers with (two requests for Bitget) and the
\* length n of the history behind a payload that has rows.
Request(p, d, step) ==
  CASE p = "okx" -> Payload(p, d.okx, step, d.n)
    [] p = "bybit" -> Payload(p, d.bybit, step, d.n)
    [] p = "binance" -> Payload(p, d.binance, step, d.n)

BitgetRequests(d, step) ==
  <<Payload("bitget", d.bitget[1], step, d.n),
    Payload("bitget", d.bitget[2], step, d.n)>>

(* ---------------------------- providers ------------------------------- *)

Raised == [raised |-> TRUE, df |-> << >>]

Returned(df) == [raised |-> FALSE, df |-> df]

fetch_okx(resp) ==
  IF resp.status = "error" THEN Raised
  ELSE IF resp.data = << >> THEN Returned(<< >>)
  ELSE Returned(Reverse(resp.data))

fetch_bybit(resp) ==
  IF resp.status = "error" THEN Raised
  ELSE IF resp.data = << >> THEN Returned(<< >>)
  ELSE Returned(Reverse(resp.data))

fetch_binance(resp) ==
  IF resp.status = "error" THEN Raised
  ELSE IF resp.data = << >> THEN Returned(<< >>)
  ELSE Returned(resp.data)

\* The two Bitget endpoints in turn; an error or an empty payload moves on
\* to the next one, and the empty frame is returned when both are spent.
RECURSIVE BitgetAttempts(_)
BitgetAttempts(attempts) ==
  IF attempts = << >> THEN << >>
  ELSE LET r == Head(attempts)
       IN  IF r.status = "error" \/ r.data = << >>
           THEN BitgetAttempts(Tail(attempts))
           ELSE Reverse(r.data)

fetch_bitget_bgb(attempts) == Returned(BitgetAttempts(attempts))

\* rotation: OKX -> Bybit -> Binance; each `return fetch_x(...)` returns
\* whatever the provider call returned, and only an exception moves on.
fetch_ohlc_1h(symbol, d) ==
  IF symbol = "BGB"
  THEN LET b == fetch_bitget_bgb(BitgetRequests(d, 1))
       IN  IF b.raised THEN << >> ELSE b.df
  ELSE LET a == fetch_okx(Request("okx", d, 1))
       IN  IF ~a.raised THEN a.df
           ELSE LET b == fetch_bybit(Request("bybit", d, 1))
                IN  IF ~b.raised THEN b.df
                    ELSE LET c == fetch_binance(Request("binance", d, 1))
                         IN  IF ~c.raised THEN c.df ELSE << >>

\* The same rotation at 1D.
fetch_ohlc_1d(symbol, d) ==
  IF symbol = "BGB"
  THEN LET b == fetch_bitget_bgb(BitgetRequests(d, DAY_HOURS))
       IN  IF b.raised THEN << >> ELSE b.df
  ELSE LET a == fetch_okx(Request("okx", d, DAY_HOURS))
       IN  IF ~a.raised THEN a.df
           ELSE LET b == fetch_bybit(Request("bybit", d, DAY_HOURS))
                IN  IF ~b.raised THEN b.df
                    ELSE LET c == fetch_binance(Request("binance", d, DAY_HOURS))
                         IN  IF ~c.raised THEN c.df ELSE << >>

\* Rotation trying OKX a second time before it moves on to Bybit.
RotationRetry(symbol, d, step) ==
  IF symbol = "BGB"
  THEN IF d.bitget[1] = "rows" THEN <<"bitget">> ELSE <<"bitget", "bitget">>
  ELSE IF ~fetch_okx(Request("okx", d, step)).raised THEN <<"okx">>
  ELSE IF ~fetch_bybit(Request("bybit", d, step)).raised
  THEN <<"okx", "okx", "bybit">>
  ELSE <<"okx", "okx", "bybit", "binance">>

\* The requests one fetch_ohlc_1h or fetch_ohlc_1d call issues, in order:
\* each try block is entered once, and a `return` ends the call.  For BGB
\* the two Bitget endpoints, the second only if the first gave no rows.
Rotation(symbol, d, step) ==
  IF symbol = "BGB"
  THEN IF d.bitget[1] = "rows" THEN <<"bitget">> ELSE <<"bitget", "bitget">>
  ELSE IF ~fetch_okx(Request("okx", d, step)).raised THEN <<"okx">>
  ELSE IF ~fetch_bybit(Request("bybit", d, step)).raised
  THEN <<"okx", "bybit">>
  ELSE <<"okx", "bybit", "binance">>

(* ---------------------------- indicators ------------------------------ *)

\* macd() with the histogram taken as signal minus MACD.
macd_swapped(m, s) == [macd |-> m, macd_signal |-> s, macd_hist |-> s - m]

\* macd(): the histogram is the MACD line minus the signal line.  m and s
\* are the values ema() yields on a row, in hundredths.
macd(m, s) == [macd |-> m, macd_signal |-> s, macd_hist |-> m - s]

\* One row of an indicated frame.
Indicated(bar, r, m, s) ==
  [close |-> bar.close, rsi |-> r,
   macd |-> macd(m, s).macd,
   macd_signal |-> macd(m, s).macd_signal,
   macd_hist |-> macd(m, s).macd_hist]

NoIndicators ==
  [none |-> TRUE, len |-> 0,
   last |-> Indicated([close |-> 0], 0, 0, 0),
   prev |-> Indicated([close |-> 0], 0, 0, 0)]

\* add_indicators: None for a frame that is empty or shorter than
\* max(SLOW+SIGN+5, 60); otherwise the frame with its indicator columns,
\* less the first row, whose rsi is undefined (diff() of the first close).
\* ta gives the indicator values of the last two rows.  Only the last two
\* rows are kept: nothing else is read from an indicated frame.
add_indicators(df, ta) ==
  IF df = << >> \/ Len(df) < Max(SLOW + SIGN + 5, MIN_BARS) THEN NoIndicators
  ELSE LET n == Len(df)
       IN  [none |-> FALSE, len |-> n - 1,
            last |-> Indicated(df[n], ta.rsi, ta.lm, ta.ls),
            prev |-> Indicated(df[n - 1], ta.prsi, ta.pm, ta.ps)]

(* ----------------------------- resampler ------------------------------ *)

\* Right-closed, right-labelled 4h bins anchored at midnight: the bar at
\* hour t falls in the bin (L-4, L] with L the next multiple of 4 at or
\* after t.
BinLabel(t) == 4 * ((t + 3) \div 4)

RECURSIVE SumVolume(_, _, _)
SumVolume(df1h, i, e) ==
  IF i > e THEN 0 ELSE df1h[i].volume + SumVolume(df1h, i + 1, e)

\* df1h["close"].resample(...).ohlc() and df1h["volume"].resample(...).sum(),
\* joined and renamed: every column of a bin but volume is taken from the
\* closes of its 1H rows i..e.
Bin4h(df1h, i, e) ==
  LET closes == {df1h[m].close : m \in i..e}
  IN  [time |-> BinLabel(df1h[i].time),
       open |-> df1h[i].close,
       high |-> CHOOSE x \in closes : \A y \in closes : y <= x,
       low |-> CHOOSE x \in closes : \A y \in closes : x <= y,
       close |-> df1h[e].close,
       volume |-> SumVolume(df1h, i, e)]

\* The bins, oldest first.  Rows come in ascending time, so the rows of a
\* bin are adjacent: a bin starts at the first row and wherever the label
\* changes.  A bin with no row has no value and is dropped by dropna(); a
\* bin is emitted as soon as it has a row.
Resample4h(df1h) ==
  LET n == Len(df1h)
      IsStart(i) ==
        i = 1 \/ BinLabel(df1h[i].time) # BinLabel(df1h[i - 1].time)
      starts == SelectSeq([i \in 1..n |-> i], IsStart)
      k == Len(starts)
  IN  SubSeq([j \in 1..k |->
                Bin4h(df1h, starts[j],
                      IF j = k THEN n ELSE starts[j + 1] - 1)], 1, k)

\* resample_to_4h falling back at 60 bars as well.
resample_to_4h_inclusive(df1h, ALLOW_1H_FALLBACK) ==
  IF df1h = << >> THEN [none |-> TRUE, df |-> << >>, used |-> "no-1h"]
  ELSE LET df4 == Resample4h(df1h)
       IN  IF Len(df4) <= MIN_BARS
           THEN IF ALLOW_1H_FALLBACK
                THEN [none |-> FALSE, df |-> df1h, used |-> "1h"]
                ELSE [none |-> TRUE, df |-> << >>, used |-> "none"]
           ELSE [none |-> FALSE, df |-> df4, used |-> "4h"]

\* resample_to_4h: (frame, label), with none standing for a None frame.
resample_to_4h(df1h, ALLOW_1H_FALLBACK) ==
  IF df1h = << >> THEN [none |-> TRUE, df |-> << >>, used |-> "no-1h"]
  ELSE LET df4 == Resample4h(df1h)
       IN  IF Len(df4) < MIN_BARS
           THEN IF ALLOW_1H_FALLBACK
                THEN [none |-> FALSE, df |-> df1h, used |-> "1h"]
                ELSE [none |-> TRUE, df |-> << >>, used |-> "none"]
           ELSE [none |-> FALSE, df |-> df4, used |-> "4h"]

(* ------------------------------ signals ------------------------------- *)

\* Trend1D looking at the sign of macd - signal alone.
Trend1DNoHist(d1) ==
  IF d1.none \/ d1.len = 0 THEN "UNKNOWN"
  ELSE IF d1.last.macd > d1.last.macd_signal THEN "UP"
  ELSE IF d1.last.macd < d1.last.macd_signal THEN "DOWN"
  ELSE "FLAT"

\* Trend 1D from the last two indicated daily rows.
Trend1D(d1) ==
  IF d1.none \/ d1.len = 0 THEN "UNKNOWN"
  ELSE LET last == d1.last
           prev == IF d1.len > 1 THEN d1.prev ELSE d1.last
       IN  IF last.macd > last.macd_signal /\ last.macd_hist > prev.macd_hist
           THEN "UP"
           ELSE IF last.macd < last.macd_signal
                   /\ last.macd_hist < prev.macd_hist
           THEN "DOWN"
           ELSE "FLAT"

crossUp(last, prev) ==
  last.macd >= last.macd_signal /\ prev.macd < prev.macd_signal

histImproving(last, prev) == last.macd_hist > prev.macd_hist

rsiBuy(c) == RSI_BUY - (IF c.RSI_WIDE THEN RSI_WIDEN ELSE 0)

rsiOpp(c) == RSI_OPP - (IF c.RSI_WIDE THEN RSI_WIDEN ELSE 0)

\* condBUY and condOPP as first assigned, before the trend filter.
condBUY(last, prev, c) == last.rsi <= rsiBuy(c) /\ crossUp(last, prev)

condOPPcore(last, c) == last.rsi <= rsiOpp(c) /\ last.macd > last.macd_signal

condOPP(last, prev, c) == condOPPcore(last, c) \/ histImproving(last, prev)

\* FilterBUY with buy_only_up leaving condBUY alone.
FilterBUYAllUpOnly(c, trend, cb) ==
  IF c.TREND_FILTER = "all_up" THEN (IF trend # "UP" THEN FALSE ELSE cb)
  ELSE cb

\* FilterOPP with all_up leaving condOPP alone.
FilterOPPNever(c, trend, co) == co

\* Trend filter modes: condBUY and condOPP as the filter leaves them.
FilterBUY(c, trend, cb) ==
  IF c.TREND_FILTER = "buy_only_up" THEN (IF trend # "UP" THEN FALSE ELSE cb)
  ELSE IF c.TREND_FILTER = "all_up" THEN (IF trend # "UP" THEN FALSE ELSE cb)
  ELSE cb

FilterOPP(c, trend, co) ==
  IF c.TREND_FILTER = "buy_only_up" THEN co
  ELSE IF c.TREND_FILTER = "all_up" THEN (IF trend # "UP" THEN FALSE ELSE co)
  ELSE co

\* trendOK without the `or condOPP`.
trendOKStrict(c, trend, co) ==
  IF c.TREND_FILTER = "off" THEN trend # "DOWN" ELSE TRUE

\* The soft filter of mode off; co is condOPP after the modes above.
trendOK(c, trend, co) ==
  IF c.TREND_FILTER = "off" THEN (trend # "DOWN") \/ co ELSE TRUE

\* cooldown_active with the comparison turned round.
cooldown_active_inverted(symbol, st, now) == now > st.cooldowns[symbol]

\* state["cooldowns"].get(coinKey, 0): an absent key reads as 0.
cooldown_active(symbol, st, now) == now < st.cooldowns[symbol]

\* Resolve with OPPORTUNITY taking precedence over BUY.
ResolveOppFirst(c, cb, co, active) ==
  [buy |-> cb /\ ~(c.ENABLE_OPP /\ co /\ ~active),
   opp |-> IF c.ENABLE_OPP THEN co /\ ~active ELSE FALSE]

\* Resolve with the cooldown gating BUY as well.
ResolveGated(c, cb, co, active) ==
  [buy |-> cb /\ ~active,
   opp |-> IF c.ENABLE_OPP THEN co /\ ~cb /\ ~active ELSE FALSE]

\* Lines 398-401: buy and opp from the filtered conditions.
Resolve(c, cb, co, active) ==
  [buy |-> cb,
   opp |-> IF c.ENABLE_OPP THEN co /\ ~cb /\ ~active ELSE FALSE]

\* Line 352: the caller gives the symbol up when no frame came back.
FrameSkipped(rs) == rs.none \/ rs.used = "none"

\* A result dict.  A key the dict does not carry holds the value run_once
\* would read with res.get: FALSE for buy and opp, 0 for price, "" else.
Skip(reason) ==
  [ok |-> FALSE, reason |-> reason, price |-> 0, buy |-> FALSE, opp |-> FALSE,
   trend1d |-> "", frameUsed |-> ""]

\* Decide starting the cooldown on BUY as well.
DecideMarksBuy(symbol, st, now, c, trend, x, used) ==
  LET last == x.last
      prev == IF x.len > 1 THEN x.prev ELSE x.last
      price == last.close
      cb0 == condBUY(last, prev, c)
      co0 == condOPP(last, prev, c)
      cb == FilterBUY(c, trend, cb0)
      co == FilterOPP(c, trend, co0)
      active == cooldown_active(symbol, st, now)
      buy == Resolve(c, cb, co, active).buy
      opp == Resolve(c, cb, co, active).opp
      loc == [stage |-> "decided", trend |-> trend, condBUY |-> cb0,
              condOPP |-> co0, cooldown_active |-> active]
  IN  IF ~trendOK(c, trend, co)
      THEN [res |-> [ok |-> FALSE, reason |-> "blocked-by-1D-trend",
                     price |-> price, buy |-> FALSE, opp |-> FALSE,
                     trend1d |-> trend, frameUsed |-> used],
            state |-> st,
            loc |-> [loc EXCEPT !.stage = "blocked", !.cooldown_active = FALSE]]
      ELSE IF buy
      THEN [res |-> [ok |-> TRUE, reason |-> "BUY", price |-> price,
                     buy |-> TRUE, opp |-> FALSE, trend1d |-> trend,
                     frameUsed |-> used],
            state |-> [st EXCEPT !.cooldowns[symbol] = now + OPP_COOLDOWN_H],
            loc |-> loc]
      ELSE IF opp
      THEN [res |-> [ok |-> TRUE, reason |-> "OPPORTUNITY", price |-> price,
                     buy |-> FALSE, opp |-> TRUE, trend1d |-> trend,
                     frameUsed |-> used],
            state |-> [st EXCEPT !.cooldowns[symbol] = now + OPP_COOLDOWN_H],
            loc |-> loc]
      ELSE [res |-> [ok |-> FALSE, reason |-> "no-signal", price |-> price,
                     buy |-> FALSE, opp |-> FALSE, trend1d |-> trend,
                     frameUsed |-> used],
            state |-> st, loc |-> loc]

\* Lines 360-417: the decision on an indicated intraday frame.  The details
\* joined into the no-signal reason are left out.
Decide(symbol, st, now, c, trend, x, used) ==
  LET last == x.last
      prev == IF x.len > 1 THEN x.prev ELSE x.last
      price == last.close
      cb0 == condBUY(last, prev, c)
      co0 == condOPP(last, prev, c)
      cb == FilterBUY(c, trend, cb0)
      co == FilterOPP(c, trend, co0)
      active == cooldown_active(symbol, st, now)
      buy == Resolve(c, cb, co, active).buy
      opp == Resolve(c, cb, co, active).opp
      loc == [stage |-> "decided", trend |-> trend, condBUY |-> cb0,
              condOPP |-> co0, cooldown_active |-> active]
  IN  IF ~trendOK(c, trend, co)
      THEN [res |-> [ok |-> FALSE, reason |-> "blocked-by-1D-trend",
                     price |-> price, buy |-> FALSE, opp |-> FALSE,
                     trend1d |-> trend, frameUsed |-> used],
            state |-> st,
            loc |-> [loc EXCEPT !.stage = "blocked", !.cooldown_active = FALSE]]
      ELSE IF buy
      THEN [res |-> [ok |-> TRUE, reason |-> "BUY", price |-> price,
                     buy |-> TRUE, opp |-> FALSE, trend1d |-> trend,
                     frameUsed |-> used],
            state |-> st, loc |-> loc]
      ELSE IF opp
      THEN [res |-> [ok |-> TRUE, reason |-> "OPPORTUNITY", price |-> price,
                     buy |-> FALSE, opp |-> TRUE, trend1d |-> trend,
                     frameUsed |-> used],
            state |-> [st EXCEPT !.cooldowns[symbol] = now + OPP_COOLDOWN_H],
            loc |-> loc]
      ELSE [res |-> [ok |-> FALSE, reason |-> "no-signal", price |-> price,
                     buy |-> FALSE, opp |-> FALSE, trend1d |-> trend,
                     frameUsed |-> used],
            state |-> st, loc |-> loc]

NoLocals(stage, trend) ==
  [stage |-> stage, trend |-> trend, condBUY |-> FALSE, condOPP |-> FALSE,
   cooldown_active |-> FALSE]

\* evaluate_signals(symbol, state, nowu): the result dict, the state dict as
\* the call leaves it, and the locals the call computed (loc.stage tells how
\* far it went).  inp holds what the network serves (d1h, d1d) and the
\* indicator tails of the daily and the intraday frame (taD, taX).
evaluate_signals(symbol, st, now, c, inp) ==
  LET df1h == fetch_ohlc_1h(symbol, inp.d1h)
      df1d == fetch_ohlc_1d(symbol, inp.d1d)
  IN  IF df1h = << >>
      THEN [res |-> Skip("no-1h-data"), state |-> st,
            loc |-> NoLocals("skipped", "")]
      ELSE IF df1d = << >>
      THEN [res |-> Skip("no-1d-data"), state |-> st,
            loc |-> NoLocals("skipped", "")]
      ELSE LET d1 == add_indicators(df1d, inp.taD)
               trend == Trend1D(d1)
               rs == resample_to_4h(df1h, c.ALLOW_1H_FALLBACK)
           IN  IF FrameSkipped(rs)
               THEN [res |-> Skip("insufficient-4h-no-fallback"), state |-> st,
                     loc |-> NoLocals("skipped", trend)]
               ELSE LET x == add_indicators(rs.df, inp.taX)
                    IN  IF x.none \/ x.len = 0
                        THEN [res |-> Skip(IF rs.used = "4h"
                                           THEN "no-4h-indicators"
                                           ELSE "no-1h-indicators"),
                              state |-> st,
                              loc |-> NoLocals("skipped", trend)]
                        ELSE Decide(symbol, st, now, c, trend, x, rs.used)

(* --------------------------- persisted state -------------------------- *)

\* The record ensure_state writes; "" for a date is -1 and an absent
\* cooldown key is 0.
DefaultState ==
  [last_daily |-> -1, last_heartbeat |-> -1,
   cooldowns |-> [c \in Symbols |-> 0],
   newsCooldowns |-> [c \in Symbols |-> 0]]

ensure_state(f) ==
  IF f.kind = "missing" THEN [kind |-> "json", rec |-> DefaultState] ELSE f

\* load_state: json.load raises on a file that is not a JSON document.
load_state(f) ==
  LET g == ensure_state(f)
  IN  IF g.kind = "json" THEN [raised |-> FALSE, file |-> g, state |-> g.rec]
      ELSE [raised |-> TRUE, file |-> g, state |-> DefaultState]

\* save_state keeping the later cooldown of the record on file.
save_state_merged(s) ==
  [kind |-> "json",
   rec |-> IF file.kind # "json" THEN s
           ELSE [s EXCEPT !.cooldowns =
                   [c \in Symbols |->
                      Max(s.cooldowns[c], file.rec.cooldowns[c])]]]

save_state(s) == [kind |-> "json", rec |-> s]

DateOf(t) == t \div DAY_HOURS

should_send_daily_report(st, now) == st.last_daily # DateOf(now)

should_send_heartbeat(st, now) == st.last_heartbeat # DateOf(now)

(* ------------------------------- inputs ------------------------------- *)

Serve(k, n) ==
  [okx |-> k, bybit |-> k, binance |-> k, bitget |-> <<k, k>>, n |-> n]

Ta(pm, ps, lm, ls, r) ==
  [pm |-> pm, ps |-> ps, lm |-> lm, ls |-> ls, rsi |-> r, prsi |-> 35]

NoEv ==
  [sym |-> "", now |-> 0, before |-> DefaultState, after |-> DefaultState,
   res |-> Skip(""), loc |-> NoLocals("", ""),
   inp |-> [d1h |-> Serve("error", 3), d1d |-> Serve("error", 3),
            taD |-> Ta(0, 0, 0, 0, 0), taX |-> Ta(0, 0, 0, 0, 0)]]

NoIo == [op |-> "", sym |-> "", arg |-> << >>, res |-> << >>]

NoHist == [c \in Symbols |-> [opp |-> -1, buys |-> 0, again |-> FALSE]]

In(d1h, d1d, taD, taX) ==
  [d1h |-> d1h, d1d |-> d1d, taD |-> taD, taX |-> taX]

\* Daily tails with the MACD line above a rising histogram and below a
\* falling one.
DailyUp == Ta(0, 0, 1, 0, 50)

DailyDown == Ta(0, 0, -1, 0, 50)

\* Intraday tails: a cross-up at RSI 25, a rising histogram at RSI 45, and
\* a falling histogram at RSI 45.
TailBuy == Ta(-1, 0, 1, 0, 25)

TailOpp == Ta(0, 0, 1, 0, 45)

TailNone == Ta(1, 0, 0, 0, 45)

\* The markets a run meets.  Failing ones: every provider down; OKX
\* answering with no rows; a 1H history too short for indicators; no daily
\* data.  A 1H history too short for 60 4H bars.  Full histories with each
\* daily trend and each intraday tail.
RunInputs ==
  {In(Serve("error", 3), Serve("rows", 60), DailyUp, TailBuy),
   In([Serve("rows", 240) EXCEPT !.okx = "empty"], Serve("rows", 60),
      DailyUp, TailBuy),
   In(Serve("rows", 3), Serve("rows", 60), DailyUp, TailBuy),
   In(Serve("rows", 240), Serve("error", 3), DailyUp, TailBuy),
   In(Serve("rows", 60), Serve("rows", 60), DailyUp, TailOpp)}
  \cup {In(Serve("rows", 240), Serve("rows", 60), d, x) :
          d \in {DailyUp, DailyDown}, x \in {TailBuy, TailOpp, TailNone}}

\* No daily report sent yet.
NoDaily == [date |-> -1, count |-> 0]

\* No second process.
NoPeer == [pc |-> "none", state |-> DefaultState, nowu |-> 0, idx |-> 1]

(* ------------------------------ run_once ------------------------------ *)

\* Time passes.  The code reads the clock when a run starts (line 507) and
\* at the daily-report check (lines 423, 427).
Tick ==
  /\ clock + TickHours <= MaxTime
  /\ pc \in {"idle", "report"}
  /\ clock' = clock + TickHours
  /\ UNCHANGED <<file, pc, state, nowu, idx, cfg, out, ev, hist, io,
                 daily, peer>>

\* Lines 506-507: a new process loads the state and reads the clock.
Start ==
  /\ pc = "idle"
  /\ LET l == load_state(file)
     IN  /\ file' = l.file
         /\ state' = l.state
         /\ pc' = IF l.raised THEN "aborted" ELSE "signals"
  /\ nowu' = clock
  /\ idx' = 1
  /\ out' = << >>
  /\ ev' = NoEv
  /\ UNCHANGED <<clock, cfg, hist, io, daily, peer>>

\* The record kept of one evaluate_signals call.
Called(c, st, now, inp, r) ==
  [sym |-> c, now |-> now, before |-> st, after |-> r.state,
   res |-> r.res, loc |-> r.loc, inp |-> inp]

\* again: this OPPORTUNITY comes less than OPP_COOLDOWN_H hours after the
\* one before it.
Streak(h, c, now, r) ==
  [h EXCEPT ![c] = [opp |-> IF r.res.opp THEN now ELSE h[c].opp,
                    buys |-> IF r.res.buy THEN Min(h[c].buys + 1, 2) ELSE 0,
                    again |-> /\ r.res.opp
                              /\ h[c].opp >= 0
                              /\ now < h[c].opp + OPP_COOLDOWN_H]]

\* Lines 515-529: what run_once prints or sends for one result.
Emit(c, res) ==
  IF ~res.ok THEN [kind |-> "print", coin |-> c, text |-> res.reason]
  ELSE IF res.buy THEN [kind |-> "telegram", coin |-> c, text |-> "BUY"]
  ELSE IF res.opp
  THEN [kind |-> "telegram", coin |-> c, text |-> "OPPORTUNITY"]
  ELSE [kind |-> "none", coin |-> c, text |-> ""]

\* NextPc leaving the loop at a result that is not ok.
NextPcBreak(i, res) ==
  IF i = Len(COINS) \/ ~res.ok THEN "report" ELSE "signals"

\* The loop goes on to the next symbol whatever the result (`continue` on
\* a result that is not ok), and leaves for the daily report after the last.
NextPc(i, res) == IF i = Len(COINS) THEN "report" ELSE "signals"

\* Evaluate writing the state file as soon as a result is in.
EvaluateAndSave ==
  /\ pc = "signals"
  /\ idx <= Len(COINS)
  /\ \E inp \in RunInputs :
       \E r \in {evaluate_signals(COINS[idx], state, nowu, cfg, inp)} :
          /\ state' = r.state
          /\ file' = save_state(r.state)
          /\ out' = Append(out, Emit(COINS[idx], r.res))
          /\ ev' = Called(COINS[idx], state, nowu, inp, r)
          /\ hist' = Streak(hist, COINS[idx], nowu, r)
          /\ pc' = NextPc(idx, r.res)
  /\ idx' = idx + 1
  /\ UNCHANGED <<clock, nowu, cfg, io, daily, peer>>

\* Lines 513-529: one pass of the signals loop.
Evaluate ==
  /\ pc = "signals"
  /\ idx <= Len(COINS)
  /\ \E inp \in RunInputs :
       \E r \in {evaluate_signals(COINS[idx], state, nowu, cfg, inp)} :
          /\ state' = r.state
          /\ out' = Append(out, Emit(COINS[idx], r.res))
          /\ ev' = Called(COINS[idx], state, nowu, inp, r)
          /\ hist' = Streak(hist, COINS[idx], nowu, r)
          /\ pc' = NextPc(idx, r.res)
  /\ idx' = idx + 1
  /\ UNCHANGED <<clock, file, nowu, cfg, io, daily, peer>>

\* The record of a daily report sent on date d; the count stops at 2.
Sent(rec, d) ==
  IF rec.date = d THEN [date |-> d, count |-> Min(rec.count + 1, 2)]
  ELSE [date |-> d, count |-> 1]

\* Lines 534-544: the daily report and the heartbeat.  The check reads the
\* clock; the stamp is the date of nowu.
Report ==
  /\ pc = "report"
  /\ LET due == should_send_daily_report(state, clock)
         s1 == IF due THEN [state EXCEPT !.last_daily = DateOf(nowu)]
               ELSE state
         o1 == IF due
               THEN Append(out, [kind |-> "telegram", coin |-> "",
                                 text |-> "daily"])
               ELSE out
         beat == should_send_heartbeat(s1, clock)
     IN  /\ state' = IF beat THEN [s1 EXCEPT !.last_heartbeat = DateOf(nowu)]
                     ELSE s1
         /\ out' = IF beat
                   THEN Append(o1, [kind |-> "telegram", coin |-> "",
                                    text |-> "heartbeat"])
                   ELSE o1
         /\ daily' = IF due THEN Sent(daily, DateOf(clock)) ELSE daily
  /\ pc' = "news"
  /\ ev' = NoEv
  /\ UNCHANGED <<clock, file, nowu, idx, cfg, hist, io, peer>>

\* Lines 546-557 with CRYPTOPANIC_TOKEN unset, its default: news_allowed_for
\* is false for every symbol, nothing is sent and no cooldown is marked.
News ==
  /\ pc = "news"
  /\ pc' = "save"
  /\ UNCHANGED <<clock, file, state, nowu, idx, cfg, out, ev, hist, io,
                 daily, peer>>

\* Line 559; the process ends and what it held in memory is gone.
Save ==
  /\ pc = "save"
  /\ file' = save_state(state)
  /\ pc' = "idle"
  /\ state' = DefaultState
  /\ nowu' = 0
  /\ idx' = 1
  /\ out' = << >>
  /\ UNCHANGED <<clock, cfg, ev, hist, io, daily, peer>>

Init ==
  /\ clock = 0
  /\ daily = NoDaily
  /\ peer = NoPeer
  /\ file = [kind |-> "missing", rec |-> DefaultState]
  /\ pc = "idle"
  /\ state = DefaultState
  /\ nowu = 0
  /\ idx = 1
  /\ cfg \in RunConfigs
  /\ out = << >>
  /\ ev = NoEv
  /\ hist = NoHist
  /\ io = NoIo

Next == Tick \/ Start \/ Evaluate \/ Report \/ News \/ Save

Spec == Init /\ [][Next]_vars

(* ---------------------- run_once around midnight --------------------- *)

\* The first run starts late in the evening.
LateInit ==
  /\ clock = DAY_HOURS - TickHours
  /\ daily = NoDaily
  /\ peer = NoPeer
  /\ file = [kind |-> "missing", rec |-> DefaultState]
  /\ pc = "idle"
  /\ state = DefaultState
  /\ nowu = 0
  /\ idx = 1
  /\ cfg \in RunConfigs
  /\ out = << >>
  /\ ev = NoEv
  /\ hist = NoHist
  /\ io = NoIo

\* Time passes, into the next day.
LateTick ==
  /\ clock + TickHours <= DAY_HOURS + MaxTime
  /\ pc \in {"idle", "report"}
  /\ clock' = clock + TickHours
  /\ UNCHANGED <<file, pc, state, nowu, idx, cfg, out, ev, hist, io, daily,
                 peer>>

LateNext == LateTick \/ Start \/ Evaluate \/ Report \/ News \/ Save

SpecLate == LateInit /\ [][LateNext]_vars

(* ------------------- run_once in a process that may die -------------- *)

\* The configuration of an environment that sets none of the variables.
DefaultConfigs ==
  {c \in RunConfigs :
     c.TREND_FILTER = "off" /\ c.ENABLE_OPP /\ c.ALLOW_1H_FALLBACK}

CrashInit ==
  /\ clock = 0
  /\ daily = NoDaily
  /\ peer = NoPeer
  /\ file = [kind |-> "missing", rec |-> DefaultState]
  /\ pc = "idle"
  /\ state = DefaultState
  /\ nowu = 0
  /\ idx = 1
  /\ cfg \in DefaultConfigs
  /\ out = << >>
  /\ ev = NoEv
  /\ hist = NoHist
  /\ io = NoIo

\* save_state, line 82: open(STATE_FILE, "w") truncates the file before
\* anything is written to it.
SaveOpen ==
  /\ pc = "save"
  /\ file' = [kind |-> "empty", rec |-> DefaultState]
  /\ pc' = "dump"
  /\ UNCHANGED <<clock, state, nowu, idx, cfg, out, ev, hist, io, daily, peer>>

\* save_state, line 83: json.dump writes the document and the with block
\* closes the file; the process ends.
SaveDump ==
  /\ pc = "dump"
  /\ file' = save_state(state)
  /\ pc' = "idle"
  /\ state' = DefaultState
  /\ nowu' = 0
  /\ idx' = 1
  /\ out' = << >>
  /\ UNCHANGED <<clock, cfg, ev, hist, io, daily, peer>>

\* The process is killed while run_once is under way: what it held in
\* memory is gone and the file stays as it is, which in the middle of
\* save_state is empty or a document cut short.
Crash ==
  /\ pc \in {"signals", "report", "news", "save", "dump"}
  /\ file' \in IF pc = "dump"
               THEN {file, [kind |-> "truncated", rec |-> DefaultState]}
               ELSE {file}
  /\ pc' = "idle"
  /\ state' = DefaultState
  /\ nowu' = 0
  /\ idx' = 1
  /\ out' = << >>
  /\ UNCHANGED <<clock, cfg, ev, hist, io, daily, peer>>

\* A run that load_state ended with a traceback is over; the scheduler
\* starts the next one.
Restart ==
  /\ pc = "aborted"
  /\ pc' = "idle"
  /\ UNCHANGED <<clock, file, state, nowu, idx, cfg, out, ev, hist, io,
                 daily, peer>>

CrashNext ==
  \/ Tick
  \/ Start
  \/ Evaluate
  \/ Report
  \/ News
  \/ SaveOpen
  \/ SaveDump
  \/ Crash
  \/ Restart

SpecCrash == CrashInit /\ [][CrashNext]_vars

(* ------------------- two run_once processes at once ------------------ *)

\* A second process starts run_once while the first is under way: nothing
\* in load_state or run_once looks for another process.
PeerStart ==
  /\ peer.pc = "none"
  /\ pc \in {"signals", "report", "news", "save"}
  /\ \E l \in {load_state(file)} :
       /\ file' = l.file
       /\ peer' = [pc |-> IF l.raised THEN "aborted" ELSE "signals",
                   state |-> l.state, nowu |-> clock, idx |-> 1]
  /\ UNCHANGED <<clock, pc, state, nowu, idx, cfg, out, ev, hist, io, daily>>

\* What the second process finds on the exchanges: full histories, with a
\* BUY, an OPPORTUNITY or no signal in them.
PeerInputs ==
  {In(Serve("rows", 240), Serve("rows", 60), DailyUp, x) :
     x \in {TailBuy, TailOpp, TailNone}}

\* Lines 513-529 in the second process.
PeerEvaluate ==
  /\ peer.pc = "signals"
  /\ \E inp \in PeerInputs :
       \E r \in {evaluate_signals(COINS[peer.idx], peer.state, peer.nowu,
                                  cfg, inp)} :
          /\ peer' = [peer EXCEPT !.state = r.state,
                                  !.idx = peer.idx + 1,
                                  !.pc = NextPc(peer.idx, r.res)]
          /\ hist' = Streak(hist, COINS[peer.idx], peer.nowu, r)
  /\ UNCHANGED <<clock, file, pc, state, nowu, idx, cfg, out, ev, io, daily>>

\* Lines 534-557 in the second process.
PeerReport ==
  /\ peer.pc = "report"
  /\ LET due == should_send_daily_report(peer.state, clock)
         s1 == IF due
               THEN [peer.state EXCEPT !.last_daily = DateOf(peer.nowu)]
               ELSE peer.state
         beat == should_send_heartbeat(s1, clock)
         s2 == IF beat THEN [s1 EXCEPT !.last_heartbeat = DateOf(peer.nowu)]
               ELSE s1
     IN  /\ peer' = [peer EXCEPT !.state = s2, !.pc = "save"]
         /\ daily' = IF due THEN Sent(daily, DateOf(clock)) ELSE daily
  /\ UNCHANGED <<clock, file, pc, state, nowu, idx, cfg, out, ev, hist, io>>

\* Line 559 in the second process, which then ends.
PeerSave ==
  /\ peer.pc = "save"
  /\ file' = save_state(peer.state)
  /\ peer' = [peer EXCEPT !.pc = "done"]
  /\ UNCHANGED <<clock, pc, state, nowu, idx, cfg, out, ev, hist, io, daily>>

RaceNext ==
  \/ Start
  \/ Evaluate
  \/ Report
  \/ News
  \/ Save
  \/ PeerStart
  \/ PeerEvaluate
  \/ PeerReport
  \/ PeerSave

SpecRace == CrashInit /\ [][RaceNext]_vars

(* ------------------- evaluate_signals on its own --------------------- *)

\* The moments of a call: no cooldown yet; a cooldown with an hour left;
\* a cooldown that runs out at this very hour.
EvalMoments ==
  {[now |-> 0, cd |-> 0],
   [now |-> OPP_COOLDOWN_H - 1, cd |-> OPP_COOLDOWN_H],
   [now |-> OPP_COOLDOWN_H, cd |-> OPP_COOLDOWN_H]}

\* The daily scenario of the specification: macd 0.5, 0.6 over signal 0.3.
ScenarioDaily == Ta(50, 30, 60, 30, 50)

\* Its intraday scenario: rsi 35, 25; macd -0.1, 0.05 over signal 0, 0.
ScenarioIntraday == Ta(-10, 0, 5, 0, 25)

DailyTails ==
  {Ta(pm, 0, lm, ls, 50) : pm \in -1..1, lm \in -1..1, ls \in 0..1}
  \cup {ScenarioDaily}

\* RSI at and beside the thresholds 25, 30, 35 and 40.
IntradayTails ==
  {Ta(pm, 0, lm, ls, r) :
     pm \in -1..1, lm \in -1..1, ls \in 0..1, r \in {25, 30, 40, 41}}
  \cup {ScenarioIntraday}

\* Full histories with every pair of tails, and a daily history too short
\* for indicators.
EvalInputs ==
  {In(Serve("rows", 240), Serve("rows", 60), d, x) :
     d \in DailyTails, x \in IntradayTails}
  \cup {In(Serve("rows", 240), Serve("rows", 3), DailyUp, x) :
          x \in IntradayTails}

EvalInit ==
  /\ clock = 0
  /\ daily = NoDaily
  /\ peer = NoPeer
  /\ file = [kind |-> "missing", rec |-> DefaultState]
  /\ pc = "call"
  /\ \E m \in EvalMoments :
       /\ nowu = m.now
       /\ state = [DefaultState EXCEPT !.cooldowns = [c \in Symbols |-> m.cd]]
  /\ idx = 1
  /\ cfg \in Configs
  /\ out = << >>
  /\ ev = NoEv
  /\ hist = NoHist
  /\ io = NoIo

EvalCall ==
  /\ pc = "call"
  /\ \E inp \in EvalInputs :
       \E r \in {evaluate_signals(COINS[idx], state, nowu, cfg, inp)} :
          /\ state' = r.state
          /\ ev' = Called(COINS[idx], state, nowu, inp, r)
  /\ pc' = "called"
  /\ UNCHANGED <<clock, file, nowu, idx, cfg, out, hist, io, daily, peer>>

EvalNext == EvalCall

SpecEval == EvalInit /\ [][EvalNext]_vars

(* ------------------------ a fetch on its own -------------------------- *)

\* Every combination of answers of the providers, over a short history.
FetchInputs ==
  [okx : PayloadKinds, bybit : PayloadKinds, binance : PayloadKinds,
   bitget : PayloadKinds \X PayloadKinds, n : {3}]

FetchInit ==
  /\ clock = 0
  /\ daily = NoDaily
  /\ peer = NoPeer
  /\ file = [kind |-> "missing", rec |-> DefaultState]
  /\ pc = "call"
  /\ state = DefaultState
  /\ nowu = 0
  /\ idx = 1
  /\ cfg \in {c \in RunConfigs : c.TREND_FILTER = "off" /\ c.ENABLE_OPP
                                  /\ c.ALLOW_1H_FALLBACK}
  /\ out = << >>
  /\ ev = NoEv
  /\ hist = NoHist
  /\ \E sym \in Symbols, d \in FetchInputs :
       io = [op |-> "", sym |-> sym, arg |-> d, res |-> << >>,
             calls |-> << >>]

Fetch1h ==
  /\ pc = "call"
  /\ io' = [io EXCEPT !.op = "fetch_ohlc_1h",
                      !.res = fetch_ohlc_1h(io.sym, io.arg),
                      !.calls = Rotation(io.sym, io.arg, 1)]
  /\ pc' = "called"
  /\ UNCHANGED <<clock, file, state, nowu, idx, cfg, out, ev, hist,
                 daily, peer>>

Fetch1d ==
  /\ pc = "call"
  /\ io' = [io EXCEPT !.op = "fetch_ohlc_1d",
                      !.res = fetch_ohlc_1d(io.sym, io.arg),
                      !.calls = Rotation(io.sym, io.arg, DAY_HOURS)]
  /\ pc' = "called"
  /\ UNCHANGED <<clock, file, state, nowu, idx, cfg, out, ev, hist,
                 daily, peer>>

FetchNext == Fetch1h \/ Fetch1d

SpecFetch == FetchInit /\ [][FetchNext]_vars

(* ---------------------- the resampler on its own ---------------------- *)

SortedSeq(T) ==
  CHOOSE q \in [1..Cardinality(T) -> T] :
    \A i, j \in 1..Cardinality(T) : i < j => q[i] < q[j]

FineValues == [open : {1, 2}, close : {1, 2}, volume : {1, 2}]

FineBar(t, v) ==
  [time |-> t, open |-> v.open, high |-> Max(v.open, v.close) + 1,
   low |-> Min(v.open, v.close) - 1, close |-> v.close, volume |-> v.volume]

\* Every 1H sequence of up to MaxFine rows at distinct hours 1..MaxHour, in
\* ascending time, hours missing or not.
FineFrames ==
  UNION {{[i \in 1..Cardinality(T) |-> FineBar(SortedSeq(T)[i], v[i])] :
            v \in [1..Cardinality(T) -> FineValues]} :
         T \in {U \in SUBSET (1..MaxHour) :
                  Cardinality(U) >= 1 /\ Cardinality(U) <= MaxFine}}

\* The 1H frames a fetch returns for histories of 3, 60, 160 and 240 hours.
FetchedFrames == {fetch_ohlc_1h(COINS[1], Serve("rows", n)) : n \in HistoryLens}

ResampleInit ==
  /\ clock = 0
  /\ daily = NoDaily
  /\ peer = NoPeer
  /\ file = [kind |-> "missing", rec |-> DefaultState]
  /\ pc = "call"
  /\ state = DefaultState
  /\ nowu = 0
  /\ idx = 1
  /\ cfg \in {c \in RunConfigs : c.TREND_FILTER = "off" /\ c.ENABLE_OPP}
  /\ out = << >>
  /\ ev = NoEv
  /\ hist = NoHist
  /\ \E df \in FineFrames \cup FetchedFrames :
       io = [op |-> "", sym |-> "", arg |-> df, res |-> << >>]

\* Lines 305-320 and the caller's test of line 352, with the 4H frame of
\* lines 308-312 kept beside the result.
ResampleCall ==
  /\ pc = "call"
  /\ \E ret \in {resample_to_4h(io.arg, cfg.ALLOW_1H_FALLBACK)} :
       io' = [io EXCEPT !.op = "resample_to_4h",
                        !.res = [df4 |-> Resample4h(io.arg),
                                 ret |-> ret,
                                 skipped |-> FrameSkipped(ret)]]
  /\ pc' = "called"
  /\ UNCHANGED <<clock, file, state, nowu, idx, cfg, out, ev, hist,
                 daily, peer>>

ResampleNext == ResampleCall

SpecResample == ResampleInit /\ [][ResampleNext]_vars

(* ------------------------------- claims ------------------------------- *)

\* An evaluate_signals call has just returned.
Returned1 == ev' # ev /\ ev'.sym # ""

SkipReasons ==
  {"no-1h-data", "no-1d-data", "insufficient-4h-no-fallback",
   "no-1h-indicators", "no-4h-indicators"}

\* C1: once OPPORTUNITY was returned for a symbol at cycle time t0, a later
\* call for that symbol at now < t0 + OPP_COOLDOWN_H does not return
\* OPPORTUNITY, and at now >= t0 + OPP_COOLDOWN_H the cooldown is not active.
C1_CooldownWindow ==
  [][Returned1 =>
       LET t0 == hist[ev'.sym].opp
       IN  t0 >= 0 =>
             /\ ev'.now < t0 + OPP_COOLDOWN_H => ~ev'.res.opp
             /\ (ev'.now >= t0 + OPP_COOLDOWN_H /\ ev'.loc.stage = "decided")
                  => ~ev'.loc.cooldown_active]_vars

\* C1 witness: OPPORTUNITY is returned again for a symbol whose earlier
\* cooldown has run out.
C1_Witness ==
  /\ ev.sym # ""
  /\ ev.res.opp
  /\ ev.before.cooldowns[ev.sym] > 0
  /\ ev.now >= ev.before.cooldowns[ev.sym]
  /\ hist[ev.sym].opp = ev.now

\* C3: a symbol whose evaluation fails for lack of data or of history is
\* skipped with its reason printed, the loop goes through every symbol of
\* COINS, and the run gets to save_state without aborting.
C3_FailureIsolated ==
  /\ pc # "aborted"
  /\ pc \in {"report", "news", "save"} =>
       \A i \in 1..Len(COINS) : i <= Len(out) /\ out[i].coin = COINS[i]
  /\ (ev.sym # "" /\ ev.loc.stage = "skipped") =>
       /\ ev.res.reason \in SkipReasons
       /\ out[Len(out)] =
            [kind |-> "print", coin |-> ev.sym, text |-> ev.res.reason]
       /\ ev.after = ev.before

\* C3 witness: the run stands before save_state with the first symbol
\* skipped for a short 4H aggregate and the second one evaluated after it.
C3_Witness ==
  /\ pc = "save"
  /\ ~cfg.ALLOW_1H_FALLBACK
  /\ out[1] = [kind |-> "print", coin |-> COINS[1],
               text |-> "insufficient-4h-no-fallback"]
  /\ Len(out) >= 2
  /\ out[2].coin = COINS[2]

\* C5: a call in which condBUY holds and the trend filter lets it through
\* returns BUY and writes no cooldown, whatever the OPPORTUNITY cooldown.
C5_BuyNotGated ==
  (/\ ev.sym # ""
   /\ ev.loc.stage = "decided"
   /\ ev.loc.condBUY
   /\ cfg.TREND_FILTER \in {"buy_only_up", "all_up"} => ev.loc.trend = "UP")
  => /\ ev.res.buy
     /\ ev.res.reason = "BUY"
     /\ ev.after = ev.before

\* C5 witness: BUY is returned for the second run in a row while the
\* symbol's OPPORTUNITY cooldown is running.
C5_Witness ==
  /\ ev.sym # ""
  /\ ev.res.buy
  /\ hist[ev.sym].buys = 2
  /\ ev.now < ev.before.cooldowns[ev.sym]

\* C2: a fetch for a rotated symbol returns the candles of the first of
\* OKX, Bybit, Binance that answers with rows, a provider that fails or
\* answers with no rows being passed over.  (Violated: the rotation returns
\* the empty frame of the first provider that answers without an error.)
FirstWithRows(d) ==
  IF d.okx = "rows" THEN "okx"
  ELSE IF d.bybit = "rows" THEN "bybit"
  ELSE IF d.binance = "rows" THEN "binance"
  ELSE "none"

C2_FirstNonEmpty ==
  (io.op \in {"fetch_ohlc_1h", "fetch_ohlc_1d"} /\ io.sym # "BGB") =>
    LET p == FirstWithRows(io.arg)
        step == IF io.op = "fetch_ohlc_1h" THEN 1 ELSE DAY_HOURS
    IN  io.res = IF p = "none" THEN << >>
                 ELSE [i \in 1..io.arg.n |-> Row(p, step, i)]

\* The conditions of a call as the specification words them, from the
\* indicator values handed to the call.
RawCrossUp(t) == t.lm >= t.ls /\ t.pm < t.ps

RawHistImproving(t) == (t.lm - t.ls) > (t.pm - t.ps)

RawCondBUY(t, c) ==
  t.rsi <= (IF c.RSI_WIDE THEN 25 ELSE 30) /\ RawCrossUp(t)

RawCondOPP(t, c) ==
  (t.rsi <= (IF c.RSI_WIDE THEN 35 ELSE 40) /\ t.lm > t.ls)
  \/ RawHistImproving(t)

RawTrend(inp) ==
  LET t == inp.taD
  IN  IF inp.d1d.n < 60 THEN "UNKNOWN"
      ELSE IF t.lm > t.ls /\ (t.lm - t.ls) > (t.pm - t.ps) THEN "UP"
      ELSE IF t.lm < t.ls /\ (t.lm - t.ls) < (t.pm - t.ps) THEN "DOWN"
      ELSE "FLAT"

\* The call got as far as the trend filter.
Gated == ev.sym # "" /\ ev.loc.stage \in {"decided", "blocked"}

\* condBUY and condOPP once the trend filter of the mode has been applied.
BuySurvives ==
  /\ RawCondBUY(ev.inp.taX, cfg)
  /\ cfg.TREND_FILTER \in {"buy_only_up", "all_up"} => ev.loc.trend = "UP"
  /\ cfg.TREND_FILTER = "off" =>
       (ev.loc.trend # "DOWN" \/ RawCondOPP(ev.inp.taX, cfg))

OppSurvives ==
  /\ RawCondOPP(ev.inp.taX, cfg)
  /\ cfg.TREND_FILTER = "all_up" => ev.loc.trend = "UP"

CooldownRunning == ev.now < ev.before.cooldowns[ev.sym]

\* C4: the result is BUY if condBUY survives the trend filter, else
\* OPPORTUNITY if the feature is on, condOPP survives and the cooldown is
\* not running, else neither; never both; and the price is the last close.
C4_Priority ==
  Gated =>
    /\ ev.res.buy = BuySurvives
    /\ ev.res.opp = (/\ ~BuySurvives
                     /\ cfg.ENABLE_OPP
                     /\ OppSurvives
                     /\ ~CooldownRunning)
    /\ ~(ev.res.buy /\ ev.res.opp)
    /\ ev.res.buy <=> ev.res.reason = "BUY"
    /\ ev.res.opp <=> ev.res.reason = "OPPORTUNITY"
    /\ ev.res.ok <=> (ev.res.buy \/ ev.res.opp)
    /\ ev.res.price = Row("okx", 1, ev.inp.d1h.n).close

\* C4 witness: the scenario rsi 35, 25, macd -0.1, 0.05 over signal 0, 0
\* under trend UP gives BUY at the last close.
C4_Witness ==
  /\ Gated
  /\ ev.inp.taX = ScenarioIntraday
  /\ ev.inp.taD = ScenarioDaily
  /\ ev.loc.trend = "UP"
  /\ ev.res.reason = "BUY"
  /\ ev.res.price = Row("okx", 1, ev.inp.d1h.n).close

\* C6: in mode all_up a call whose daily trend is not UP returns neither
\* BUY nor OPPORTUNITY, whatever condBUY and condOPP were.
C6_AllUp ==
  (Gated /\ cfg.TREND_FILTER = "all_up" /\ ev.loc.trend # "UP") =>
    /\ ~ev.res.buy
    /\ ~ev.res.opp
    /\ ~ev.res.ok
    /\ ev.res.reason = "no-signal"
    /\ ev.after = ev.before

\* C6 witness: trend DOWN with condBUY and condOPP both true before the
\* filter, resolved to no signal.
C6_Witness ==
  /\ Gated
  /\ cfg.TREND_FILTER = "all_up"
  /\ ev.loc.trend = "DOWN"
  /\ RawCondBUY(ev.inp.taX, cfg)
  /\ RawCondOPP(ev.inp.taX, cfg)
  /\ ev.res.reason = "no-signal"

\* C7: in mode buy_only_up every BUY has trend UP, and with another trend
\* OPPORTUNITY is returned exactly as condOPP, the feature flag and the
\* cooldown have it.
C7_BuyOnlyUp ==
  (Gated /\ cfg.TREND_FILTER = "buy_only_up") =>
    /\ ev.res.buy => ev.loc.trend = "UP"
    /\ ev.loc.trend # "UP" =>
         ev.res.opp = (/\ cfg.ENABLE_OPP
                       /\ RawCondOPP(ev.inp.taX, cfg)
                       /\ ~CooldownRunning)

\* C7 witness: a BUY condition under trend DOWN comes out as OPPORTUNITY.
C7_Witness ==
  /\ Gated
  /\ cfg.TREND_FILTER = "buy_only_up"
  /\ ev.loc.trend = "DOWN"
  /\ RawCondBUY(ev.inp.taX, cfg)
  /\ ev.res.opp

C9_Trend ==
  (ev.sym # "" /\ ev.loc.trend # "") =>
    /\ ev.loc.trend = RawTrend(ev.inp)
    /\ ev.loc.trend \in {"UP", "DOWN", "FLAT", "UNKNOWN"}
    /\ Gated => ev.res.trend1d = ev.loc.trend

\* C9 witness: macd 0.5, 0.6, signal 0.3, 0.3, histogram 0.2, 0.3 gives UP.
C9_Witness ==
  /\ ev.sym # ""
  /\ ev.inp.taD = ScenarioDaily
  /\ ev.inp.d1d.n >= 60
  /\ ev.loc.trend = "UP"

\* C10: each 4H bucket has the open of its first 1H bar, the highest high,
\* the lowest low, the close of its last bar and the sum of the volumes.
\* (Violated: open, high and low are taken from the closes.)
C10_Ohlcv ==
  io.op = "resample_to_4h" =>
    \A j \in 1..Len(io.res.df4) :
      LET b == io.res.df4[j]
          rows == {i \in 1..Len(io.arg) : BinLabel(io.arg[i].time) = b.time}
          first == CHOOSE i \in rows : \A m \in rows : i <= m
          last == CHOOSE i \in rows : \A m \in rows : m <= i
      IN  /\ b.open = io.arg[first].open
          /\ \A i \in rows : io.arg[i].high <= b.high
          /\ \E i \in rows : io.arg[i].high = b.high
          /\ \A i \in rows : b.low <= io.arg[i].low
          /\ \E i \in rows : io.arg[i].low = b.low
          /\ b.close = io.arg[last].close
          /\ b.volume = SumVolume(io.arg, first, last)

\* The number of 4H buckets the rows of a 1H frame fall into.
Buckets(df1h) == Cardinality({BinLabel(df1h[i].time) : i \in 1..Len(df1h)})

\* C11: with fewer than 60 4H bars, resample_to_4h returns the 1H frame
\* unchanged and labelled "1h" if fallback is enabled, and no frame, the
\* symbol being skipped, if it is disabled; with 60 bars or more it returns
\* the 4H frame labelled "4h".
C11_FrameFallback ==
  io.op = "resample_to_4h" =>
    LET ret == io.res.ret
    IN  /\ (Buckets(io.arg) < 60 /\ cfg.ALLOW_1H_FALLBACK) =>
             (~ret.none /\ ret.df = io.arg /\ ret.used = "1h"
              /\ ~io.res.skipped)
        /\ (Buckets(io.arg) < 60 /\ ~cfg.ALLOW_1H_FALLBACK) =>
             (ret.none /\ io.res.skipped)
        /\ Buckets(io.arg) >= 60 =>
             (~ret.none /\ ret.df = io.res.df4 /\ Len(ret.df) = Buckets(io.arg)
              /\ ret.used = "4h" /\ ~io.res.skipped)

\* C11 witness: 160 hours make 40 buckets; with fallback enabled the 160
\* rows come back labelled "1h".
C11_Witness ==
  /\ io.op = "resample_to_4h"
  /\ cfg.ALLOW_1H_FALLBACK
  /\ Buckets(io.arg) = 40
  /\ Len(io.res.ret.df) = 160
  /\ io.res.ret.used = "1h"

\* A run starts: load_state is called.
Loads == pc = "idle" /\ pc' \in {"signals", "aborted"}

\* C12: load_state yields the default record when the state file is missing
\* or is not a complete JSON record, and the run goes on; an unreadable file
\* never aborts run_once.  (Violated: json.load raises on such a file and
\* nothing in run_once catches it.)
C12_LoadDefaults ==
  [][(Loads /\ file.kind # "json") =>
       (pc' = "signals" /\ state' = DefaultState)]_vars

\* C13: across completed runs that do not overlap, the daily report is sent
\* at most once on a calendar date, also when a run starts before midnight
\* and reaches the report check after it.  (Violated: such a run sends the
\* report on the new date and stamps the old one, so the next run sends it
\* again on the new date.)
C13_DailyOnce == daily.count <= 1

\* The run under way has sent OPPORTUNITY for symbol c.
FiredOpp(c) ==
  \E i \in 1..Len(out) : out[i].coin = c /\ out[i].text = "OPPORTUNITY"

\* C14: from the moment evaluate_signals fires OPPORTUNITY until save_state
\* has run, the new cooldown is held in memory only and the state file does
\* not have it, so a process killed in between loses it and the next run
\* can fire OPPORTUNITY for the symbol again inside the window.
C14_NotCrashSafe ==
  \A c \in Symbols :
    (pc \in {"signals", "report", "news", "save", "dump"} /\ FiredOpp(c)) =>
      /\ state.cooldowns[c] = nowu + OPP_COOLDOWN_H
      /\ file.kind = "json" => file.rec.cooldowns[c] <= nowu

\* C14 witness: a run that follows a killed one fires OPPORTUNITY for a
\* symbol less than OPP_COOLDOWN_H hours after the killed run did.
C14_Witness ==
  \E c \in Symbols :
    /\ hist[c].again
    /\ FiredOpp(c)
    /\ ev.sym = c
    /\ ev.res.opp
    /\ ev.before.cooldowns[c] <= ev.now

\* C16: at every instant the state file holds a complete record, the
\* previous one or the new one, and load_state never reads an empty or
\* cut-short file.  (Violated: save_state opens the file for writing, which
\* empties it, and writes the document afterwards.)
C16_AtomicSave ==
  /\ file.kind \in {"missing", "json"}
  /\ pc # "aborted"

\* C15: nothing locks the state file.  Whichever process saves, the file
\* becomes exactly the record that process holds, whatever the other one
\* has written since this one loaded; so two overlapping runs can both fire
\* OPPORTUNITY for a symbol in one window and the last save discards the
\* other run's updates.
C15_LastWriterWins ==
  [][/\ (pc = "save" /\ pc' = "idle") =>
          file' = [kind |-> "json", rec |-> state]
     /\ (peer.pc = "save" /\ peer'.pc = "done") =>
          file' = [kind |-> "json", rec |-> peer.state]]_vars

\* C15 witness: both runs are over, the second one saved last, a symbol was
\* fired twice inside one window, and the cooldown of a symbol the first
\* run fired is not in the file.
C15_Witness ==
  /\ pc = "idle"
  /\ peer.pc = "done"
  /\ file = [kind |-> "json", rec |-> peer.state]
  /\ \E c \in Symbols : hist[c].again
  /\ \E c \in Symbols :
       /\ hist[c].opp >= 0
       /\ file.rec.cooldowns[c] < hist[c].opp + OPP_COOLDOWN_H

\* What provider p answered in the fetch under way.
Answer(p) ==
  CASE p = "okx" -> io.arg.okx
    [] p = "bybit" -> io.arg.bybit
    [] p = "binance" -> io.arg.binance

\* C17: one fetch call tries OKX, Bybit, Binance in this order, each at most
\* once; a provider is tried only after every one before it has failed, and
\* none is tried after one has returned.
C17_RotationOrder ==
  (io.op \in {"fetch_ohlc_1h", "fetch_ohlc_1d"} /\ io.sym # "BGB") =>
    LET order == <<"okx", "bybit", "binance">>
        n == Len(io.calls)
    IN  /\ n \in 1..3
        /\ \A i \in 1..n : io.calls[i] = order[i]
        /\ \A i \in 1..(n - 1) : Answer(io.calls[i]) = "error"
        /\ n < 3 => Answer(io.calls[n]) # "error"

\* C17 witness: OKX fails, Bybit returns rows, Binance is left alone.
C17_Witness ==
  /\ io.op = "fetch_ohlc_1h"
  /\ io.sym # "BGB"
  /\ io.arg.okx = "error"
  /\ io.arg.bybit = "rows"
  /\ io.calls = <<"okx", "bybit">>
  /\ Len(io.res) = io.arg.n

\* C18: a 4H bucket is emitted only if the 1H sequence reaches the end of
\* the bucket; a trailing bucket the sequence ends inside of is dropped.
\* (Violated: every bucket that holds a row is emitted.)
C18_NoPartialBucket ==
  io.op = "resample_to_4h" =>
    \A j \in 1..Len(io.res.df4) :
      io.res.df4[j].time <= io.arg[Len(io.arg)].time

\* C19: in mode off under a daily trend DOWN, a call whose condBUY holds
\* before the filter while the symbol's OPPORTUNITY cooldown is running does
\* not come out as BUY.  (Violated: condBUY implies condOPP, so trendOK is
\* true and BUY is returned.)
C19_BuyBlockedInDown ==
  (/\ Gated
   /\ cfg.TREND_FILTER = "off"
   /\ ev.loc.trend = "DOWN"
   /\ RawCondBUY(ev.inp.taX, cfg)
   /\ CooldownRunning) => ~ev.res.buy

\* C20: in every evaluation condBUY before the trend filter implies condOPP
\* before the trend filter, the cross-up forcing the histogram to rise; so
\* a BUY that buy_only_up suppresses is returned as OPPORTUNITY when the
\* feature is on and no cooldown runs.
C20_BuyImpliesOpp ==
  Gated =>
    /\ ev.loc.condBUY => ev.loc.condOPP
    /\ RawCrossUp(ev.inp.taX) => RawHistImproving(ev.inp.taX)
    /\ (/\ cfg.TREND_FILTER = "buy_only_up"
        /\ ev.loc.trend # "UP"
        /\ ev.loc.condBUY
        /\ cfg.ENABLE_OPP
        /\ ~CooldownRunning) => ev.res.reason = "OPPORTUNITY"

\* C20 witness: a cross-up that ends with macd equal to signal, where only
\* the rising histogram makes condOPP true, suppressed as BUY by
\* buy_only_up and returned as OPPORTUNITY.
C20_Witness ==
  /\ Gated
  /\ cfg.TREND_FILTER = "buy_only_up"
  /\ ev.loc.trend = "FLAT"
  /\ ev.inp.taX.lm = ev.inp.taX.ls
  /\ ev.loc.condBUY
  /\ ev.loc.condOPP
  /\ ev.res.reason = "OPPORTUNITY"

\* C21: evaluate_signals leaves the state record as it was in every outcome
\* but OPPORTUNITY (BUY, no signal, blocked by the trend, every skip); on
\* OPPORTUNITY it changes one entry only, the cooldown of the symbol, to
\* now + OPP_COOLDOWN_H.
C21_FrameEffect ==
  ev.sym # "" =>
    /\ state = ev.after
    /\ ev.res.reason # "OPPORTUNITY" => ev.after = ev.before
    /\ ev.res.reason = "OPPORTUNITY" =>
         /\ ev.after.cooldowns[ev.sym] = ev.now + OPP_COOLDOWN_H
         /\ ev.after.cooldowns[ev.sym] # ev.before.cooldowns[ev.sym]
         /\ \A c \in Symbols \ {ev.sym} :
              ev.after.cooldowns[c] = ev.before.cooldowns[c]
         /\ ev.after.last_daily = ev.before.last_daily
         /\ ev.after.last_heartbeat = ev.before.last_heartbeat
         /\ ev.after.newsCooldowns = ev.before.newsCooldowns

\* C21 witness: in a later run, OPPORTUNITY for the second symbol right
\* after the first symbol's cooldown was started; that cooldown and the
\* day-stamps of the earlier run stay as they were.
C21_Witness ==
  /\ ev.sym = COINS[2]
  /\ ev.res.reason = "OPPORTUNITY"
  /\ ev.before.cooldowns[COINS[1]] = ev.now + OPP_COOLDOWN_H
  /\ ev.after.cooldowns[COINS[1]] = ev.before.cooldowns[COINS[1]]
  /\ ev.after.cooldowns[COINS[2]] = ev.now + OPP_COOLDOWN_H
  /\ ev.before.last_daily >= 0
  /\ ev.after.last_daily = ev.before.last_daily

====
